---- MODULE Spec2Model ----
(***************************************************************************)
(* Identity store of the face-recognition bot: the person/embedding tables *)
(* (db.py, FaceDatabase), the snapshot cache in front of them (db.py,      *)
(* CacheManager) and the matcher that classifies one embedding             *)
(* (face_recognizer.py, FaceRecognizer).                                   *)
(*                                                                         *)
(* Representation of a vector.  Every vector the model feeds in has the    *)
(* form (x/10, 0.0, ..., 0.0): `dim` components, the first one x tenths,   *)
(* all others zero.  It is written [type, dim, x]; `type` is the Python    *)
(* container that carries it.  For two such vectors of equal dim the       *)
(* Euclidean norm of the difference is |x1 - x2| tenths, which is what     *)
(* calculate_distance returns; on the values used here the floating-point  *)
(* norm compares with 0.6 exactly as the integers compare with 6.  Rows of *)
(* the embedding table are keyed by embedding_hash (UNIQUE); the surrogate *)
(* key Embedding.id is never read by the program and is left out.  A list  *)
(* of vectors whose order the program never looks at (the values of the    *)
(* snapshot mapping) is a set.                                             *)
(***************************************************************************)
EXTENDS Integers, FiniteSets, Sequences, TLC

\* An optional value: None, or Some(x) holding x (read back with Get).
None    == << >>
Some(x) == <<x>>
Get(o)  == o[1]

\* error kinds a call can end with; NoError when it returns normally
NoError == "none"

\* ---- bounds --------------------------------------------------------------
MaxPersonId   == 2      \* ids the person sequence may hand out
MaxAppearance == 3      \* cap on appearance_count reached by increments
MaxTime       == 61     \* the clock stops here
MaxCalls      == 4      \* calls the threads start in one run

\* ---- program constants ---------------------------------------------------
EXPECTED_DIMENSION == 128
cache_lifetime     == 60
threshold          == 6          \* 0.6, in tenths

\* the clock advances by exactly the cache lifetime, or just past it
TickSteps == {cache_lifetime, cache_lifetime + 1}

\* ---- inputs --------------------------------------------------------------
\* face_recognition.face_encodings yields numpy arrays of 128 floats
Arr(x) == [type |-> "ndarray", dim |-> EXPECTED_DIMENSION, x |-> x]

ShortVector == [type |-> "ndarray", dim |-> EXPECTED_DIMENSION - 1, x |-> 0]
LongVector  == [type |-> "list", dim |-> EXPECTED_DIMENSION + 1, x |-> 0]
TupleVector == [type |-> "tuple", dim |-> EXPECTED_DIMENSION, x |-> 0]

InvalidVectors == {ShortVector, LongVector, TupleVector}

\* vectors given to the store's methods: -2.0 and -1.0 share a hash
StoreVectors == {Arr(x) : x \in {-20, -10, 0}} \cup InvalidVectors

\* vectors given to the matcher: -1.0, -0.5, 0.0 are 0.5 apart, 0.0 and 0.6
\* are exactly the threshold apart
MatcherVectors == {Arr(x) : x \in {-20, -10, -5, 0, 6}}
                      \cup {ShortVector, TupleVector}

\* six vectors with six different hashes
ManyVectors == {Arr(x) : x \in {-20, -5, 0, 6, 20, 30}}

PersonIds == 1..(MaxPersonId + 1)

\* images given to the recognizer, each by the encodings
\* face_recognition.face_encodings finds in it: no face, one face, two
\* faces, three faces
Images == {<< >>, <<Arr(-5)>>, <<Arr(0)>>, <<Arr(6)>>, <<Arr(20)>>,
           <<Arr(0), Arr(20)>>, <<Arr(-5), Arr(0), Arr(20)>>}

VARIABLES
    person,           \* table person: id -> appearance_count
    embedding,        \* table embedding: set of rows
    person_id_seq,    \* last value handed out by the person.id sequence
    cache,            \* CacheManager.cache
    cache_timestamp,  \* CacheManager.cache_timestamp
    now,              \* time.time()
    ret,              \* the last call that ended: operation, arguments, outcome
    frame,            \* per thread: the call it is in the middle of
    calls             \* number of calls the threads have started

vars == <<person, embedding, person_id_seq, cache, cache_timestamp, now, ret,
          frame, calls>>

\* threads that may be inside the store at the same time
Threads == {"t1", "t2"}

\* a thread that is in no call
IdleFrame == [pc |-> "idle", op |-> "", person_id |-> None, v |-> None,
              count |-> None, data |-> None, val |-> None]

\* ---- pure functions --------------------------------------------------------

\* embedding.tolist() if isinstance(embedding, np.ndarray) else embedding
AsList(v) == IF v.type = "ndarray" THEN [v EXCEPT !.type = "list"] ELSE v

\* hash() of one float: hash(-1.0) = hash(-2.0) = -2, otherwise distinct on
\* the values used here
FloatHash(x) == IF x = -10 THEN -20 ELSE x

\* hash(tuple(embedding)): on vectors (x, 0, ..., 0) it separates lengths and
\* separates first components exactly as far as FloatHash does
calculate_embedding_hash(l) == <<l.dim, FloatHash(l.x)>>

\* validate_embedding with the length test turned into "too short"
validate_embedding_too_short_only(v) ==
    IF v.type \notin {"list", "ndarray"} THEN "ValueError"
    ELSE IF v.dim < EXPECTED_DIMENSION THEN "ValueError"
    ELSE NoError

\* validate_embedding: the error it raises, or NoError
validate_embedding(v) ==
    IF v.type \notin {"list", "ndarray"} THEN "ValueError"
    ELSE IF v.dim # EXPECTED_DIMENSION THEN "ValueError"
    ELSE NoError

\* _calculate_distance: np.linalg.norm(e1 - e2), in tenths.  Shapes that do
\* not broadcast raise ValueError, reported here as None.
calculate_distance(e1, e2) ==
    IF e1.dim # e2.dim THEN None
    ELSE IF e1.x >= e2.x THEN Some(e1.x - e2.x) ELSE Some(e2.x - e1.x)

\* the hashes present in the embedding table
StoredHashes == {r.embedding_hash : r \in embedding}

\* ---- the store and its cache as one value ----------------------------------
\* S = [person, embedding, seq, cache, ts]; t is time.time() at the call.

St == [person |-> person, embedding |-> embedding, seq |-> person_id_seq,
       cache |-> cache, ts |-> cache_timestamp]

Result(S, err, msg, val) == [S |-> S, err |-> err, msg |-> msg, val |-> val]

\* is_cache_valid with the age compared by < instead of <=
is_cache_valid_strict(S, t) ==
    /\ S.cache # None
    /\ DOMAIN Get(S.cache) # {}
    /\ t - Get(S.ts) < cache_lifetime

\* CacheManager.is_cache_valid: truthiness of
\* self.cache and (time.time() - self.cache_timestamp <= self.cache_lifetime)
is_cache_valid(S, t) ==
    /\ S.cache # None
    /\ DOMAIN Get(S.cache) # {}
    /\ t - Get(S.ts) <= cache_lifetime

\* CacheManager.get_cache
get_cache(S, t, force_refresh) ==
    IF force_refresh \/ ~is_cache_valid(S, t) THEN None ELSE S.cache

\* CacheManager.refresh_cache
refresh_cache(S, data, t) == [S EXCEPT !.cache = Some(data), !.ts = Some(t)]

\* FaceDatabase.get_all_embeddings_from_db
get_all_embeddings_from_db(S) ==
    [p \in DOMAIN S.person |->
        {e.embedding : e \in {r \in S.embedding : r.person_id = p}}]

\* FaceDatabase.get_all_embeddings
get_all_embeddings(S, t) ==
    LET cached_embeddings == get_cache(S, t, FALSE) IN
    IF cached_embeddings = None
    THEN LET fresh == get_all_embeddings_from_db(S) IN
         Result(refresh_cache(S, fresh, t), NoError, "", Some(fresh))
    ELSE Result(S, NoError, "", cached_embeddings)

\* add_person_with_embedding without the look-up of the hash
add_person_with_embedding_unchecked(S, v, t) ==
    IF validate_embedding(v) # NoError
    THEN Result(S, "ValueError", "validation", None)
    ELSE
    LET embedding_as_list == AsList(v)
        embedding_hash    == calculate_embedding_hash(embedding_as_list)
        id  == S.seq + 1
        row == [person_id |-> id, embedding |-> embedding_as_list,
                embedding_hash |-> embedding_hash]
        S1  == [S EXCEPT !.person = (id :> 1) @@ @,
                         !.embedding = @ \cup {row},
                         !.seq = id]
    IN Result(refresh_cache(S1, get_all_embeddings_from_db(S1), t),
              NoError, "", Some(id))

\* FaceDatabase.add_person_with_embedding
add_person_with_embedding(S, v, t) ==
    IF validate_embedding(v) # NoError
    THEN Result(S, "ValueError", "validation", None)
    ELSE
    LET embedding_as_list == AsList(v)
        embedding_hash    == calculate_embedding_hash(embedding_as_list)
    IN
    IF \E r \in S.embedding : r.embedding_hash = embedding_hash
    THEN Result(S, "Exception", "duplicate", None)
    ELSE
    LET id  == S.seq + 1
        row == [person_id |-> id, embedding |-> embedding_as_list,
                embedding_hash |-> embedding_hash]
        S1  == [S EXCEPT !.person = (id :> 1) @@ @,
                         !.embedding = @ \cup {row},
                         !.seq = id]
    IN Result(refresh_cache(S1, get_all_embeddings_from_db(S1), t),
              NoError, "", Some(id))

\* add_embedding without the look-up of the hash
add_embedding_unchecked(S, person_id, v, t) ==
    IF validate_embedding(v) # NoError
    THEN Result(S, "ValueError", "validation", None)
    ELSE IF person_id \notin DOMAIN S.person
    THEN Result(S, "Exception", "not_found", None)
    ELSE
    LET embedding_as_list == AsList(v)
        embedding_hash    == calculate_embedding_hash(embedding_as_list)
        row == [person_id |-> person_id, embedding |-> embedding_as_list,
                embedding_hash |-> embedding_hash]
        S1  == [S EXCEPT !.embedding = @ \cup {row}]
    IN Result(refresh_cache(S1, get_all_embeddings_from_db(S1), t),
              NoError, "", None)

\* add_embedding that commits and returns without refreshing the cache
add_embedding_stale_cache(S, person_id, v, t) ==
    IF validate_embedding(v) # NoError
    THEN Result(S, "ValueError", "validation", None)
    ELSE IF person_id \notin DOMAIN S.person
    THEN Result(S, "Exception", "not_found", None)
    ELSE
    LET embedding_as_list == AsList(v)
        embedding_hash    == calculate_embedding_hash(embedding_as_list)
    IN
    IF \E r \in S.embedding : r.embedding_hash = embedding_hash
    THEN Result(S, NoError, "", None)
    ELSE
    LET row == [person_id |-> person_id, embedding |-> embedding_as_list,
                embedding_hash |-> embedding_hash]
    IN Result([S EXCEPT !.embedding = @ \cup {row}], NoError, "", None)

\* add_embedding without its own look-up of the hash: the INSERT of a stored
\* hash is refused by the UNIQUE constraint and surfaces as an error
add_embedding_unique_only(S, person_id, v, t) ==
    IF validate_embedding(v) # NoError
    THEN Result(S, "ValueError", "validation", None)
    ELSE IF person_id \notin DOMAIN S.person
    THEN Result(S, "Exception", "not_found", None)
    ELSE
    LET embedding_as_list == AsList(v)
        embedding_hash    == calculate_embedding_hash(embedding_as_list)
    IN
    IF \E r \in S.embedding : r.embedding_hash = embedding_hash
    THEN Result(S, "Exception", "integrity", None)
    ELSE
    LET row == [person_id |-> person_id, embedding |-> embedding_as_list,
                embedding_hash |-> embedding_hash]
        S1  == [S EXCEPT !.embedding = @ \cup {row}]
    IN Result(refresh_cache(S1, get_all_embeddings_from_db(S1), t),
              NoError, "", None)

\* add_embedding that raises on a stored hash, as add_person_with_embedding
\* does
add_embedding_raising(S, person_id, v, t) ==
    IF validate_embedding(v) # NoError
    THEN Result(S, "ValueError", "validation", None)
    ELSE IF person_id \notin DOMAIN S.person
    THEN Result(S, "Exception", "not_found", None)
    ELSE
    LET embedding_as_list == AsList(v)
        embedding_hash    == calculate_embedding_hash(embedding_as_list)
    IN
    IF \E r \in S.embedding : r.embedding_hash = embedding_hash
    THEN Result(S, "Exception", "duplicate", None)
    ELSE
    LET row == [person_id |-> person_id, embedding |-> embedding_as_list,
                embedding_hash |-> embedding_hash]
        S1  == [S EXCEPT !.embedding = @ \cup {row}]
    IN Result(refresh_cache(S1, get_all_embeddings_from_db(S1), t),
              NoError, "", None)

\* FaceDatabase.add_embedding
add_embedding(S, person_id, v, t) ==
    IF validate_embedding(v) # NoError
    THEN Result(S, "ValueError", "validation", None)
    ELSE IF person_id \notin DOMAIN S.person
    THEN Result(S, "Exception", "not_found", None)
    ELSE
    LET embedding_as_list == AsList(v)
        embedding_hash    == calculate_embedding_hash(embedding_as_list)
    IN
    IF \E r \in S.embedding : r.embedding_hash = embedding_hash
    THEN Result(S, NoError, "", None)
    ELSE
    LET row == [person_id |-> person_id, embedding |-> embedding_as_list,
                embedding_hash |-> embedding_hash]
        S1  == [S EXCEPT !.embedding = @ \cup {row}]
    IN Result(refresh_cache(S1, get_all_embeddings_from_db(S1), t),
              NoError, "", None)

\* FaceDatabase.get_embeddings
get_embeddings(S, person_id, t) ==
    LET r == get_all_embeddings(S, t) IN
    IF person_id \in DOMAIN Get(r.val)
    THEN Result(r.S, NoError, "", Some(Get(r.val)[person_id]))
    ELSE Result(r.S, "ValueError", "not_found", None)

\* increment_appearance that refreshes the cache whether or not the person
\* exists
increment_appearance_always_refresh(S, person_id, t) ==
    LET S1 == IF person_id \in DOMAIN S.person
              THEN [S EXCEPT !.person[person_id] = @ + 1]
              ELSE S
    IN Result(refresh_cache(S1, get_all_embeddings_from_db(S1), t),
              NoError, "", None)

\* FaceDatabase.increment_appearance
increment_appearance(S, person_id, t) ==
    IF person_id \in DOMAIN S.person
    THEN LET S1 == [S EXCEPT !.person[person_id] = @ + 1] IN
         Result(refresh_cache(S1, get_all_embeddings_from_db(S1), t),
                NoError, "", None)
    ELSE Result(S, NoError, "", None)

\* FaceDatabase.get_appearance_count
get_appearance_count(S, person_id) ==
    IF person_id \notin DOMAIN S.person
    THEN Result(S, "Exception", "not_found", None)
    ELSE Result(S, NoError, "", Some(S.person[person_id]))

\* clear_database that commits and returns without refreshing the cache
clear_database_stale_cache(S, t) ==
    Result([S EXCEPT !.person = << >>, !.embedding = {}], NoError, "", None)

\* FaceDatabase.clear_database
clear_database(S, t) ==
    LET S1 == [S EXCEPT !.person = << >>, !.embedding = {}] IN
    Result(refresh_cache(S1, << >>, t), NoError, "", None)

\* ---- the matcher ------------------------------------------------------------

\* the dictionary _recognize_and_update_from_embedding returns
Outcome(status, id, count) == [status |-> status, id |-> id, count |-> count]

\* the scan with half the threshold
matched_person_ids_half_threshold(all_embeddings, v) ==
    {p \in DOMAIN all_embeddings :
        \E s \in all_embeddings[p] :
            2 * Get(calculate_distance(v, s)) < threshold}

\* the scan with an inclusive comparison
matched_person_ids_inclusive(all_embeddings, v) ==
    {p \in DOMAIN all_embeddings :
        \E s \in all_embeddings[p] :
            Get(calculate_distance(v, s)) <= threshold}

\* the scan of _recognize_and_update_from_embedding: the ids of the persons
\* with a stored embedding at distance < threshold
matched_person_ids(all_embeddings, v) ==
    {p \in DOMAIN all_embeddings :
        \E s \in all_embeddings[p] :
            Get(calculate_distance(v, s)) < threshold}

\* the branches with a single match treated as no match
decision_no_update(n) ==
    IF n <= 1 THEN "create" ELSE "ambiguous"

\* the branches with every match treated as a single match
decision_any_match(n) ==
    IF n = 0 THEN "create" ELSE "update"

\* the branch _recognize_and_update_from_embedding takes for n matched ids
decision(n) ==
    IF n = 0 THEN "create" ELSE IF n = 1 THEN "update" ELSE "ambiguous"

\* the matched branch with the increment ahead of the append
update_matched_increment_first(S, matched_person_id, v, t) ==
    LET r2 == increment_appearance(S, matched_person_id, t)
        r1 == add_embedding(r2.S, matched_person_id, v, t)
        r3 == get_appearance_count(r1.S, matched_person_id)
    IN
    IF r1.err # NoError THEN r1
    ELSE IF r3.err # NoError THEN r3
    ELSE Result(r3.S, NoError, "",
                Some(Outcome("Updated", Some(matched_person_id), r3.val)))

\* the matched branch: add_embedding, increment_appearance, then
\* get_appearance_count
update_matched(S, matched_person_id, v, t) ==
    LET r1 == add_embedding(S, matched_person_id, v, t)
        r2 == increment_appearance(r1.S, matched_person_id, t)
        r3 == get_appearance_count(r2.S, matched_person_id)
    IN
    IF r1.err # NoError THEN r1
    ELSE IF r3.err # NoError THEN r3
    ELSE Result(r3.S, NoError, "",
                Some(Outcome("Updated", Some(matched_person_id), r3.val)))

\* FaceRecognizer._recognize_and_update_from_embedding
recognize_and_update_from_embedding(S, v, t) ==
    LET r0 == get_all_embeddings(S, t)
        all_embeddings == Get(r0.val)
        stored == UNION {all_embeddings[p] : p \in DOMAIN all_embeddings}
        matched == matched_person_ids(all_embeddings, v)
        branch == decision(Cardinality(matched))
    IN
    IF \E s \in stored : calculate_distance(v, s) = None
    THEN Result(r0.S, "ValueError", "broadcast", None)
    ELSE IF branch = "create"
    THEN LET r1 == add_person_with_embedding(r0.S, v, t) IN
         IF r1.err # NoError THEN r1
         ELSE Result(r1.S, NoError, "", Some(Outcome("Created", r1.val, Some(1))))
    ELSE IF branch = "update"
    THEN update_matched(r0.S, CHOOSE p \in matched : TRUE, v, t)
    ELSE Result(r0.S, NoError, "", Some(Outcome("Ambiguous", None, None)))

\* FaceRecognizer._extract_embedding_from_image, from face_encodings on
extract_embedding_from_image(face_encodings) ==
    IF Len(face_encodings) # 1 THEN None ELSE Some(face_encodings[1])

\* the dictionary recognize_and_update builds when no embedding came out of
\* the image; the message is the fixed text of line 22
ExtractionFailed == [status |-> "Rejected", message |-> "extraction_failed"]

\* the text of the message entry of the dictionaries of
\* _recognize_and_update_from_embedding, without the id it quotes
message_of(status) ==
    IF status = "Created" THEN "new_person_added"
    ELSE IF status = "Updated" THEN "embedding_added"
    ELSE "ambiguous"

\* FaceRecognizer._format_result: the entries of the dictionary in order,
\* one line "key: value" each
format_result(result) ==
    IF result.status = "Rejected"
    THEN << <<"status", result.status>>, <<"message", result.message>> >>
    ELSE IF result.status = "Ambiguous"
    THEN << <<"status", result.status>>,
            <<"message", message_of(result.status)>> >>
    ELSE << <<"status", result.status>>,
            <<"message", message_of(result.status)>>,
            <<"person_id", Get(result.id)>>,
            <<"count", Get(result.count)>> >>

\* FaceRecognizer.recognize_and_update, from face_encodings on
recognize_and_update(S, face_encodings, t) ==
    LET emb == extract_embedding_from_image(face_encodings) IN
    IF emb = None
    THEN Result(S, NoError, "", Some(format_result(ExtractionFailed)))
    ELSE LET r == recognize_and_update_from_embedding(S, Get(emb), t) IN
         IF r.err # NoError THEN r
         ELSE Result(r.S, NoError, "", Some(format_result(Get(r.val))))

\* ---- actions: one call of a public method, run to completion ---------------

Call(op, person_id, v, r) ==
    [op |-> op, person_id |-> person_id, v |-> v,
     err |-> r.err, msg |-> r.msg, val |-> r.val]

Apply(op, person_id, v, r) ==
    /\ r.S.seq <= MaxPersonId
    /\ \A p \in DOMAIN r.S.person : r.S.person[p] <= MaxAppearance
    /\ person' = r.S.person
    /\ embedding' = r.S.embedding
    /\ person_id_seq' = r.S.seq
    /\ cache' = r.S.cache
    /\ cache_timestamp' = r.S.ts
    /\ ret' = Call(op, person_id, v, r)
    /\ UNCHANGED <<now, frame, calls>>

AddPersonWithEmbedding(v) ==
    Apply("add_person_with_embedding", None, Some(v),
          add_person_with_embedding(St, v, now))

AddEmbedding(person_id, v) ==
    Apply("add_embedding", Some(person_id), Some(v),
          add_embedding(St, person_id, v, now))

GetAllEmbeddings ==
    Apply("get_all_embeddings", None, None, get_all_embeddings(St, now))

GetEmbeddings(person_id) ==
    Apply("get_embeddings", Some(person_id), None,
          get_embeddings(St, person_id, now))

IncrementAppearance(person_id) ==
    Apply("increment_appearance", Some(person_id), None,
          increment_appearance(St, person_id, now))

GetAppearanceCount(person_id) ==
    Apply("get_appearance_count", Some(person_id), None,
          get_appearance_count(St, person_id))

ClearDatabase ==
    Apply("clear_database", None, None, clear_database(St, now))

Classify(v) ==
    Apply("classify", None, Some(v),
          recognize_and_update_from_embedding(St, v, now))

Recognize(image) ==
    Apply("recognize_and_update", None, Some(image),
          recognize_and_update(St, image, now))

\* the clock of time.time() moves on between calls
Tick ==
    /\ \E d \in TickSteps :
        /\ now + d <= MaxTime
        /\ now' = now + d
    /\ UNCHANGED <<person, embedding, person_id_seq, cache, cache_timestamp,
                   ret, frame, calls>>

Init ==
    /\ person = << >>
    /\ embedding = {}
    /\ person_id_seq = 0
    /\ cache = None
    /\ cache_timestamp = None
    /\ now = 0
    /\ ret = [op |-> "init", person_id |-> None, v |-> None,
              err |-> NoError, msg |-> "", val |-> None]
    /\ frame = [t \in Threads |-> IdleFrame]
    /\ calls = 0

\* the store used directly through the methods of IDatabase
Next ==
    \/ \E v \in StoreVectors : AddPersonWithEmbedding(v)
    \/ \E p \in PersonIds, v \in StoreVectors : AddEmbedding(p, v)
    \/ GetAllEmbeddings
    \/ \E p \in PersonIds : GetEmbeddings(p)
    \/ \E p \in PersonIds : IncrementAppearance(p)
    \/ \E p \in PersonIds : GetAppearanceCount(p)
    \/ ClearDatabase
    \/ Tick

Spec == Init /\ [][Next]_vars

\* the store used as the bot uses it: through the recognizer and the
\* clear button (app.py)
NextMatcher ==
    \/ \E v \in MatcherVectors : Classify(v)
    \/ ClearDatabase
    \/ Tick

SpecMatcher == Init /\ [][NextMatcher]_vars

\* the bot: a photo or document handed to the recognizer, and the clear
\* button (app.py)
NextBot ==
    \/ \E image \in Images : Recognize(image)
    \/ ClearDatabase
    \/ Tick

SpecBot == Init /\ [][NextBot]_vars

\* one identity after another filled with many different vectors
NextMany ==
    \/ \E v \in ManyVectors : AddPersonWithEmbedding(v)
    \/ \E p \in PersonIds, v \in ManyVectors : AddEmbedding(p, v)

SpecMany == Init /\ [][NextMany]_vars

\* ---- the same methods, statement by statement, in several threads ----------
\* Each thread runs one call at a time.  A step is one statement that reads
\* or writes the database (each SELECT, the commit with its INSERT / UPDATE /
\* DELETE statements) or the cache (each assignment of refresh_cache, each
\* read of self.cache or self.cache_timestamp by get_all_embeddings); the
\* database runs at READ COMMITTED, so every SELECT sees what is committed.
\* The SELECTs of one get_all_embeddings_from_db are taken as one read.  A
\* unique or foreign-key violation surfaces at the commit as IntegrityError,
\* wrapped by the method into Exception like every error raised inside its
\* try block.

ConcVectors == {Arr(x) : x \in {-20, -10, 0}}

CallFrame(op, person_id, v) ==
    [IdleFrame EXCEPT !.pc = "called", !.op = op, !.person_id = person_id,
                      !.v = v]

\* thread t, in no call, starts one
Idle(t) ==
    /\ frame[t].pc = "idle"
    /\ calls < MaxCalls
    /\ calls' = calls + 1

\* thread t is inside its call at pc, running op
At(t, pc, op) ==
    /\ frame[t].pc = pc
    /\ frame[t].op = op
    /\ UNCHANGED calls

\* thread t moves on inside its call
Goto(t, f) == frame' = [frame EXCEPT ![t] = f] /\ UNCHANGED ret

\* the call of thread t returns val or raises err
Return(t, f, err, msg, val) ==
    /\ frame' = [frame EXCEPT ![t] = IdleFrame]
    /\ ret' = [op |-> f.op, person_id |-> f.person_id, v |-> f.v,
               err |-> err, msg |-> msg, val |-> val]

\* embedding_hash without the UNIQUE constraint
violates_unique_never(h) == FALSE

\* Embedding.embedding_hash is UNIQUE: the INSERT of a stored hash fails
violates_unique(h) == h \in StoredHashes

\* Embedding.person_id REFERENCES person.id: the INSERT for a person that
\* is gone fails
violates_foreign_key(p) == p \notin DOMAIN person

\* add_person_with_embedding, lines 142-152: validation and the SELECT of
\* the hash
T_AddPerson_Query(t, v) ==
    /\ Idle(t)
    /\ LET f == CallFrame("add_person_with_embedding", None, Some(v)) IN
       IF validate_embedding(v) # NoError
       THEN Return(t, f, "ValueError", "validation", None)
       ELSE IF calculate_embedding_hash(AsList(v)) \in StoredHashes
       THEN Return(t, f, "Exception", "duplicate", None)
       ELSE Goto(t, [f EXCEPT !.pc = "commit"])
    /\ UNCHANGED <<person, embedding, person_id_seq, cache, cache_timestamp, now>>

\* add_person_with_embedding, lines 155-166: INSERT person (the sequence
\* hands out the id), INSERT embedding, commit
T_AddPerson_Commit(t) ==
    /\ At(t, "commit", "add_person_with_embedding")
    /\ LET f   == frame[t]
           l   == AsList(Get(f.v))
           h   == calculate_embedding_hash(l)
           id  == person_id_seq + 1
           row == [person_id |-> id, embedding |-> l, embedding_hash |-> h]
       IN
       /\ id <= MaxPersonId
       /\ person_id_seq' = id
       /\ IF violates_unique(h)
          THEN /\ Return(t, f, "Exception", "integrity", None)
               /\ UNCHANGED <<person, embedding>>
          ELSE /\ person' = (id :> 1) @@ person
               /\ embedding' = embedding \cup {row}
               /\ Goto(t, [f EXCEPT !.pc = "snapshot", !.val = Some(id)])
    /\ UNCHANGED <<cache, cache_timestamp, now>>

\* add_embedding, lines 177-183: validation and the SELECT of the person
T_AddEmbedding_QueryPerson(t, p, v) ==
    /\ Idle(t)
    /\ LET f == CallFrame("add_embedding", Some(p), Some(v)) IN
       IF validate_embedding(v) # NoError
       THEN Return(t, f, "ValueError", "validation", None)
       ELSE IF p \notin DOMAIN person
       THEN Return(t, f, "Exception", "not_found", None)
       ELSE Goto(t, [f EXCEPT !.pc = "query_hash"])
    /\ UNCHANGED <<person, embedding, person_id_seq, cache, cache_timestamp, now>>

\* add_embedding, lines 185-190: the SELECT of the hash
T_AddEmbedding_QueryHash(t) ==
    /\ At(t, "query_hash", "add_embedding")
    /\ LET f == frame[t] IN
       IF calculate_embedding_hash(AsList(Get(f.v))) \in StoredHashes
       THEN Return(t, f, NoError, "", None)
       ELSE Goto(t, [f EXCEPT !.pc = "commit"])
    /\ UNCHANGED <<person, embedding, person_id_seq, cache, cache_timestamp, now>>

\* add_embedding, lines 192-198: INSERT embedding, commit
T_AddEmbedding_Commit(t) ==
    /\ At(t, "commit", "add_embedding")
    /\ LET f   == frame[t]
           p   == Get(f.person_id)
           l   == AsList(Get(f.v))
           h   == calculate_embedding_hash(l)
           row == [person_id |-> p, embedding |-> l, embedding_hash |-> h]
       IN
       IF violates_foreign_key(p) \/ violates_unique(h)
       THEN /\ Return(t, f, "Exception", "integrity", None)
            /\ UNCHANGED embedding
       ELSE /\ embedding' = embedding \cup {row}
            /\ Goto(t, [f EXCEPT !.pc = "snapshot"])
    /\ UNCHANGED <<person, person_id_seq, cache, cache_timestamp, now>>

\* increment_appearance, lines 241-243: the SELECT of the person; the new
\* count is computed in Python from the count read here
T_Increment_Query(t, p) ==
    /\ Idle(t)
    /\ LET f == CallFrame("increment_appearance", Some(p), None) IN
       IF p \in DOMAIN person
       THEN Goto(t, [f EXCEPT !.pc = "commit", !.count = Some(person[p] + 1)])
       ELSE Return(t, f, NoError, "", None)
    /\ UNCHANGED <<person, embedding, person_id_seq, cache, cache_timestamp, now>>

\* increment_appearance, line 244: UPDATE person SET appearance_count = the
\* computed count, commit; an UPDATE that finds no row raises
T_Increment_Commit(t) ==
    /\ At(t, "commit", "increment_appearance")
    /\ LET f == frame[t]
           p == Get(f.person_id)
       IN
       IF p \notin DOMAIN person
       THEN /\ Return(t, f, "Exception", "stale", None)
            /\ UNCHANGED person
       ELSE /\ Get(f.count) <= MaxAppearance
            /\ person' = [person EXCEPT ![p] = Get(f.count)]
            /\ Goto(t, [f EXCEPT !.pc = "snapshot"])
    /\ UNCHANGED <<embedding, person_id_seq, cache, cache_timestamp, now>>

\* clear_database, lines 262-264: DELETE both tables, commit; line 266
\* refreshes the cache with {}
T_Clear_Commit(t) ==
    /\ Idle(t)
    /\ person' = << >>
    /\ embedding' = {}
    /\ Goto(t, [CallFrame("clear_database", None, None)
                    EXCEPT !.pc = "refresh_cache", !.data = Some(<< >>)])
    /\ UNCHANGED <<person_id_seq, cache, cache_timestamp, now>>

\* self.get_all_embeddings_from_db(), the argument of refresh_cache
T_Snapshot(t) ==
    /\ At(t, "snapshot", frame[t].op)
    /\ Goto(t, [frame[t] EXCEPT !.pc = "refresh_cache",
                                !.data = Some(get_all_embeddings_from_db(St))])
    /\ UNCHANGED <<person, embedding, person_id_seq, cache, cache_timestamp, now>>

\* refresh_cache, line 85: self.cache = data
T_RefreshCache(t) ==
    /\ At(t, "refresh_cache", frame[t].op)
    /\ cache' = frame[t].data
    /\ Goto(t, [frame[t] EXCEPT !.pc = "refresh_timestamp"])
    /\ UNCHANGED <<person, embedding, person_id_seq, cache_timestamp, now>>

\* refresh_cache, line 86: self.cache_timestamp = time.time(); the call
\* returns
T_RefreshTimestamp(t) ==
    /\ At(t, "refresh_timestamp", frame[t].op)
    /\ cache_timestamp' = Some(now)
    /\ Return(t, frame[t], NoError, "", frame[t].val)
    /\ UNCHANGED <<person, embedding, person_id_seq, cache, now>>

\* get_all_embeddings, line 219 into is_cache_valid, line 69: the read of
\* self.cache; a cache that is None or empty is not valid, and the method
\* goes on to read the tables
T_GetAll_ReadCache(t) ==
    /\ Idle(t)
    /\ LET f == CallFrame("get_all_embeddings", None, None) IN
       IF cache = None \/ DOMAIN Get(cache) = {}
       THEN Goto(t, [f EXCEPT !.pc = "read_db"])
       ELSE Goto(t, [f EXCEPT !.pc = "read_timestamp", !.data = cache])
    /\ UNCHANGED <<person, embedding, person_id_seq, cache, cache_timestamp, now>>

\* is_cache_valid, line 69: the read of self.cache_timestamp and the
\* comparison; time.time() - None raises TypeError
T_GetAll_ReadTimestamp(t) ==
    /\ At(t, "read_timestamp", "get_all_embeddings")
    /\ LET f == frame[t] IN
       IF cache_timestamp = None
       THEN Return(t, f, "TypeError", "no_timestamp", None)
       ELSE IF now - Get(cache_timestamp) <= cache_lifetime
       THEN Goto(t, [f EXCEPT !.pc = "return_cache"])
       ELSE Goto(t, [f EXCEPT !.pc = "read_db"])
    /\ UNCHANGED <<person, embedding, person_id_seq, cache, cache_timestamp, now>>

\* get_cache, line 78: return self.cache, read once more; get_all_embeddings
\* returns it
T_GetAll_ReturnCache(t) ==
    /\ At(t, "return_cache", "get_all_embeddings")
    /\ Return(t, frame[t], NoError, "", cache)
    /\ UNCHANGED <<person, embedding, person_id_seq, cache, cache_timestamp, now>>

\* get_all_embeddings, lines 220-223: the tables are read; the mapping is
\* what refresh_cache is given and what the method returns
T_GetAll_ReadDb(t) ==
    /\ At(t, "read_db", "get_all_embeddings")
    /\ LET data == Some(get_all_embeddings_from_db(St)) IN
       Goto(t, [frame[t] EXCEPT !.pc = "refresh_cache", !.data = data,
                                !.val = data])
    /\ UNCHANGED <<person, embedding, person_id_seq, cache, cache_timestamp, now>>

NextThreads ==
    \E t \in Threads :
        \/ \E v \in ConcVectors : T_AddPerson_Query(t, v)
        \/ T_AddPerson_Commit(t)
        \/ \E p \in PersonIds, v \in ConcVectors : T_AddEmbedding_QueryPerson(t, p, v)
        \/ T_AddEmbedding_QueryHash(t)
        \/ T_AddEmbedding_Commit(t)
        \/ \E p \in PersonIds : T_Increment_Query(t, p)
        \/ T_Increment_Commit(t)
        \/ T_Clear_Commit(t)
        \/ T_Snapshot(t)
        \/ T_RefreshCache(t)
        \/ T_RefreshTimestamp(t)
        \/ T_GetAll_ReadCache(t)
        \/ T_GetAll_ReadTimestamp(t)
        \/ T_GetAll_ReturnCache(t)
        \/ T_GetAll_ReadDb(t)

SpecThreads == Init /\ [][NextThreads]_vars

\* ---- the recognizer in several threads --------------------------------------
\* Each thread runs _recognize_and_update_from_embedding; a step is one call
\* of a method of the store (get_all_embeddings with the scan that follows
\* it, add_person_with_embedding, add_embedding, increment_appearance,
\* get_appearance_count), run to completion.  The interleavings inside one
\* method are those of SpecThreads and are not repeated here.

\* 0.0 and -0.5, -0.5 and -1.0 lie within the threshold of each other, 0.0
\* and -1.0 do not; the three hashes differ
RaceVectors == {Arr(x) : x \in {-10, -5, 0}}

\* the store and the cache after a method of the store has run
Commit(S) ==
    /\ S.seq <= MaxPersonId
    /\ \A p \in DOMAIN S.person : S.person[p] <= MaxAppearance
    /\ person' = S.person
    /\ embedding' = S.embedding
    /\ person_id_seq' = S.seq
    /\ cache' = S.cache
    /\ cache_timestamp' = S.ts
    /\ UNCHANGED now

\* lines 42-51, 59, 70: get_all_embeddings(), the scan and the choice of the
\* branch; the Ambiguous branch returns at once
T_Classify_Scan(t, v) ==
    /\ Idle(t)
    /\ LET f  == CallFrame("classify", None, Some(v))
           r0 == get_all_embeddings(St, now)
           all_embeddings == Get(r0.val)
           stored  == UNION {all_embeddings[p] : p \in DOMAIN all_embeddings}
           matched == matched_person_ids(all_embeddings, v)
           branch  == decision(Cardinality(matched))
       IN
       /\ Commit(r0.S)
       /\ IF \E s \in stored : calculate_distance(v, s) = None
          THEN Return(t, f, "ValueError", "broadcast", None)
          ELSE IF branch = "create"
          THEN Goto(t, [f EXCEPT !.pc = "create", !.data = r0.val])
          ELSE IF branch = "update"
          THEN Goto(t, [f EXCEPT !.pc = "append", !.data = r0.val,
                         !.person_id = Some(CHOOSE p \in matched : TRUE)])
          ELSE Return(t, f, NoError, "",
                      Some(Outcome("Ambiguous", None, None)))

\* the create step with add_person_with_embedding called again when it
\* raises
T_Classify_Create_retrying(t) ==
    /\ At(t, "create", "classify")
    /\ LET f  == frame[t]
           r1 == add_person_with_embedding(St, Get(f.v), now)
       IN
       /\ Commit(r1.S)
       /\ IF r1.err # NoError
          THEN Goto(t, f)
          ELSE Return(t, f, NoError, "",
                      Some(Outcome("Created", r1.val, Some(1))))

\* lines 52-58: add_person_with_embedding(embedding) and the Created result
T_Classify_Create(t) ==
    /\ At(t, "create", "classify")
    /\ LET f  == frame[t]
           r1 == add_person_with_embedding(St, Get(f.v), now)
       IN
       /\ Commit(r1.S)
       /\ IF r1.err # NoError
          THEN Return(t, f, r1.err, r1.msg, None)
          ELSE Return(t, f, NoError, "",
                      Some(Outcome("Created", r1.val, Some(1))))

\* line 61: add_embedding(matched_person_id, embedding)
T_Classify_Append(t) ==
    /\ At(t, "append", "classify")
    /\ LET f == frame[t]
           r == add_embedding(St, Get(f.person_id), Get(f.v), now)
       IN
       /\ Commit(r.S)
       /\ IF r.err # NoError
          THEN Return(t, f, r.err, r.msg, None)
          ELSE Goto(t, [f EXCEPT !.pc = "increment"])

\* line 62: increment_appearance(matched_person_id)
T_Classify_Increment(t) ==
    /\ At(t, "increment", "classify")
    /\ Commit(increment_appearance(St, Get(frame[t].person_id), now).S)
    /\ Goto(t, [frame[t] EXCEPT !.pc = "count"])

\* lines 63-69: get_appearance_count(matched_person_id) and the Updated
\* result
T_Classify_Count(t) ==
    /\ At(t, "count", "classify")
    /\ LET f == frame[t]
           r == get_appearance_count(St, Get(f.person_id))
       IN
       /\ Commit(r.S)
       /\ IF r.err # NoError
          THEN Return(t, f, r.err, r.msg, None)
          ELSE Return(t, f, NoError, "",
                      Some(Outcome("Updated", f.person_id, r.val)))

\* clear_database(), from the clear button
T_Classify_Clear(t) ==
    /\ Idle(t)
    /\ Commit(clear_database(St, now).S)
    /\ Return(t, CallFrame("clear_database", None, None), NoError, "", None)

NextRace ==
    \E t \in Threads :
        \/ \E v \in RaceVectors : T_Classify_Scan(t, v)
        \/ T_Classify_Create(t)
        \/ T_Classify_Append(t)
        \/ T_Classify_Increment(t)
        \/ T_Classify_Count(t)
        \/ T_Classify_Clear(t)

SpecRace == Init /\ [][NextRace]_vars

\* a thread inside a call is scheduled again: its next statement runs
RunningStep(t) ==
    \/ T_Classify_Create(t)
    \/ T_Classify_Append(t)
    \/ T_Classify_Increment(t)
    \/ T_Classify_Count(t)

SpecRaceFair == SpecRace /\ \A t \in Threads : WF_vars(RunningStep(t))

TypeOK ==
    /\ DOMAIN person \subseteq 1..MaxPersonId
    /\ person_id_seq \in 0..MaxPersonId
    /\ now \in 0..MaxTime
    /\ calls \in 0..MaxCalls
    /\ \A r \in embedding : r.embedding_hash = calculate_embedding_hash(r.embedding)

\* ---- vocabulary of the properties -------------------------------------------

\* the vectors person p owns in the embedding table
EmbeddingsOf(p) == {r.embedding : r \in {e \in embedding : e.person_id = p}}

\* the authoritative contents of the two tables
store == <<person, embedding>>

\* the vectors person p owns after the step
EmbeddingsOfNext(p) == {r.embedding : r \in {e \in embedding' : e.person_id = p}}

\* v and s have the same length and lie less than the threshold apart
\* (squares compared, in hundredths)
Near(v, s) ==
    /\ v.dim = s.dim
    /\ (v.x - s.x) * (v.x - s.x) < threshold * threshold

\* the persons that own a vector near v
NearPersons(v) == {p \in DOMAIN person : \E s \in EmbeddingsOf(p) : Near(v, s)}

\* what the last call returned, when it was a classification that returned
Classified(status) ==
    /\ ret.op = "classify"
    /\ ret.err = NoError
    /\ Get(ret.val).status = status

\* ---- C1 ---------------------------------------------------------------------
\* C1: add_embedding(id, v) on an existing person that holds 5 embeddings,
\* v valid and its hash not yet stored, removes exactly one of the person's
\* embeddings, one at the smallest distance from v, and inserts v, so that
\* the person holds 5 embeddings afterwards.
C1_EvictOnSixth ==
    [][\A p \in PersonIds, v \in ManyVectors :
        ( /\ p \in DOMAIN person
          /\ Cardinality(EmbeddingsOf(p)) = 5
          /\ calculate_embedding_hash(AsList(v)) \notin StoredHashes
          /\ AddEmbedding(p, v) )
        => LET before  == EmbeddingsOf(p)
               after   == {r.embedding : r \in {e \in embedding' : e.person_id = p}}
               removed == before \ after
           IN /\ Cardinality(after) = 5
              /\ AsList(v) \in after
              /\ Cardinality(removed) = 1
              /\ \A g \in removed : \A o \in before :
                    Get(calculate_distance(v, g)) <= Get(calculate_distance(v, o))
      ]_vars

\* ---- C2 ---------------------------------------------------------------------
\* C2: no two rows of the embedding table carry the same embedding_hash,
\* whether they belong to the same person or to different persons.
C2_UniqueHash ==
    \A r1, r2 \in embedding :
        r1.embedding_hash = r2.embedding_hash => r1 = r2

\* two persons own embeddings, and an insert that passed its own look-up of
\* the hash has been refused at commit because another thread had meanwhile
\* committed a different vector with that hash
C2_Witness ==
    /\ Cardinality(DOMAIN person) = 2
    /\ \A p \in DOMAIN person : EmbeddingsOf(p) # {}
    /\ ret.op \in {"add_embedding", "add_person_with_embedding"}
    /\ ret.msg = "integrity"
    /\ \E r \in embedding :
        /\ r.embedding_hash = calculate_embedding_hash(AsList(Get(ret.v)))
        /\ r.embedding # AsList(Get(ret.v))

\* ---- C3 ---------------------------------------------------------------------
MutatingOps == {"add_person_with_embedding", "add_embedding",
                "increment_appearance", "clear_database"}

\* C3: after a mutating call of the store has returned, get_all_embeddings()
\* returns the mapping the tables hold, from the cache or re-read.
C3_ReadAfterWrite ==
    (ret.op \in MutatingOps /\ ret.err = NoError)
        => Get(get_all_embeddings(St, now).val) = get_all_embeddings_from_db(St)

\* an append has inserted a second embedding and the read is served from
\* the cache
C3_Witness ==
    /\ ret.op = "add_embedding"
    /\ ret.err = NoError
    /\ AsList(Get(ret.v)) \in EmbeddingsOf(Get(ret.person_id))
    /\ Cardinality(EmbeddingsOf(Get(ret.person_id))) = 2
    /\ is_cache_valid(St, now)

\* ---- C4 ---------------------------------------------------------------------
\* C4: classify(v), v valid, with no person owning a vector near v, returns
\* Created with a new id and count 1; the store then holds one more person,
\* that person owns exactly v with appearance_count 1, and every other
\* person is unchanged.
C4_CreatedWhenNoMatch ==
    [][\A v \in MatcherVectors :
        ( /\ ret'.op = "classify"
          /\ ret'.v = Some(v)
          /\ validate_embedding(v) = NoError
          /\ NearPersons(v) = {}
          /\ Classify(v) )
        => /\ ret'.err = NoError
           /\ Get(ret'.val).status = "Created"
           /\ Get(ret'.val).count = Some(1)
           /\ LET id == Get(Get(ret'.val).id) IN
              /\ id \notin DOMAIN person
              /\ DOMAIN person' = DOMAIN person \cup {id}
              /\ person'[id] = 1
              /\ EmbeddingsOfNext(id) = {AsList(v)}
              /\ \A p \in DOMAIN person :
                    /\ person'[p] = person[p]
                    /\ EmbeddingsOfNext(p) = EmbeddingsOf(p)
      ]_vars

\* ---- C5 ---------------------------------------------------------------------
\* C5: classify(v) with exactly one person p owning a vector near v appends
\* v to p, then increments p, and returns Updated with p and the count
\* before the call plus 1; no other person changes.  When the append raises
\* (v is not a list or array) nothing has been incremented.
C5_UpdatedWhenOneMatch ==
    [][\A v \in MatcherVectors, p \in PersonIds :
        ( /\ ret'.op = "classify"
          /\ ret'.v = Some(v)
          /\ v.dim = EXPECTED_DIMENSION
          /\ NearPersons(v) = {p}
          /\ Classify(v) )
        => /\ \A q \in DOMAIN person \ {p} :
                /\ person'[q] = person[q]
                /\ EmbeddingsOfNext(q) = EmbeddingsOf(q)
           /\ DOMAIN person' = DOMAIN person
           /\ IF validate_embedding(v) = NoError
              THEN /\ ret'.err = NoError
                   /\ ret'.val = Some(Outcome("Updated", Some(p),
                                              Some(person[p] + 1)))
                   /\ person'[p] = person[p] + 1
                   /\ EmbeddingsOfNext(p) \in
                        {EmbeddingsOf(p), EmbeddingsOf(p) \cup {AsList(v)}}
                   /\ (calculate_embedding_hash(AsList(v)) \notin StoredHashes
                        => AsList(v) \in EmbeddingsOfNext(p))
              ELSE /\ ret'.err = "ValueError"
                   /\ person'[p] = person[p]
                   /\ EmbeddingsOfNext(p) = EmbeddingsOf(p)
      ]_vars

\* a vector 0.5 away from the person's only embedding has been classified:
\* Updated, count 2, two embeddings
C5_Witness ==
    /\ Classified("Updated")
    /\ Get(ret.val).count = Some(2)
    /\ LET p == Get(Get(ret.val).id) IN
       /\ person[p] = 2
       /\ Cardinality(EmbeddingsOf(p)) = 2
       /\ AsList(Get(ret.v)) \in EmbeddingsOf(p)

\* ---- C6 ---------------------------------------------------------------------
\* C6: classify(v) with two or more persons owning a vector near v returns
\* Ambiguous and changes neither table.
C6_AmbiguousNoMutation ==
    [][\A v \in MatcherVectors :
        ( /\ ret'.op = "classify"
          /\ ret'.v = Some(v)
          /\ Cardinality(NearPersons(v)) >= 2
          /\ Classify(v) )
        => /\ ret'.err = NoError
           /\ ret'.val = Some(Outcome("Ambiguous", None, None))
           /\ UNCHANGED <<person, embedding, person_id_seq>>
      ]_vars

\* Ambiguous has been returned with two persons in the store
C6_Witness ==
    /\ Classified("Ambiguous")
    /\ Cardinality(NearPersons(Get(ret.v))) = 2

\* ---- C7 ---------------------------------------------------------------------
\* C7: a person is matched by classify(v) iff it owns a vector at distance
\* strictly less than the threshold from v: the outcome is Created (or the
\* creation fails) when no person is, Updated with that person when exactly
\* one is, however many of its vectors are near, and Ambiguous otherwise.
C7_StrictThreshold ==
    [][\A v \in MatcherVectors :
        ( /\ ret'.op = "classify"
          /\ ret'.v = Some(v)
          /\ validate_embedding(v) = NoError
          /\ Classify(v) )
        => LET n   == Cardinality(NearPersons(v))
               out == Get(ret'.val)
           IN /\ n = 0 => (ret'.err = NoError => out.status = "Created")
              /\ n = 1 => /\ ret'.err = NoError
                          /\ out.status = "Updated"
                          /\ Get(out.id) \in NearPersons(v)
              /\ n >= 2 => /\ ret'.err = NoError
                           /\ out.status = "Ambiguous"
      ]_vars

\* Created has been returned for a vector exactly the threshold away from a
\* vector of another person
C7_WitnessBoundary ==
    /\ Classified("Created")
    /\ \E r \in embedding :
        /\ r.person_id # Get(Get(ret.val).id)
        /\ (r.embedding.x - Get(ret.v).x) * (r.embedding.x - Get(ret.v).x)
                = threshold * threshold

\* ---- C8 ---------------------------------------------------------------------
\* C8: add_person_with_embedding(v), v valid, fails with the duplicate error
\* whenever a row with v's hash exists, and then changes neither table nor
\* hands out a person id.
C8_DuplicateRejected ==
    [][\A v \in StoreVectors :
        ( /\ ret'.op = "add_person_with_embedding"
          /\ ret'.v = Some(v)
          /\ validate_embedding(v) = NoError
          /\ calculate_embedding_hash(AsList(v)) \in StoredHashes
          /\ AddPersonWithEmbedding(v) )
        => /\ ret'.err = "Exception"
           /\ ret'.msg = "duplicate"
           /\ UNCHANGED <<person, embedding, person_id_seq>>
      ]_vars

\* a creation has just been rejected as a duplicate
C8_Witness ==
    /\ ret.op = "add_person_with_embedding"
    /\ ret.msg = "duplicate"
    /\ calculate_embedding_hash(AsList(Get(ret.v))) \in StoredHashes

\* ---- C9 ---------------------------------------------------------------------
\* C9: add_embedding(id, v) called again right after it returned changes
\* neither the tables nor the cache and raises no error.
C9_AppendIdempotent ==
    [][\A p \in PersonIds, v \in StoreVectors :
        ( /\ ret.op = "add_embedding"
          /\ ret.err = NoError
          /\ ret.person_id = Some(p)
          /\ ret.v = Some(v)
          /\ AddEmbedding(p, v) )
        => /\ ret'.err = NoError
           /\ UNCHANGED <<person, embedding, person_id_seq, cache, cache_timestamp>>
      ]_vars

\* the same append has been made again, later, after the first one inserted
C9_Witness ==
    /\ ret.op = "add_embedding"
    /\ ret.err = NoError
    /\ AsList(Get(ret.v)) \in EmbeddingsOf(Get(ret.person_id))
    /\ cache_timestamp # None
    /\ Get(cache_timestamp) < now

\* ---- C10 --------------------------------------------------------------------
\* C10: add_person_with_embedding and add_embedding given a vector that has
\* not 128 components raise the validation error and change nothing, also
\* when add_embedding is given the id of no person.
C10_WrongDimensionRejected ==
    [][\A v \in StoreVectors :
        (v.dim # EXPECTED_DIMENSION /\ ret'.v = Some(v)) =>
            \A p \in PersonIds :
                (AddPersonWithEmbedding(v) \/ AddEmbedding(p, v))
                => /\ ret'.err = "ValueError"
                   /\ ret'.msg = "validation"
                   /\ UNCHANGED <<person, embedding, person_id_seq,
                                  cache, cache_timestamp>>
      ]_vars

\* an append of a vector that is too long to the id of no person has been
\* rejected by validation, with persons in the store
C10_Witness ==
    /\ ret.op = "add_embedding"
    /\ ret.msg = "validation"
    /\ Get(ret.v).dim > EXPECTED_DIMENSION
    /\ Get(ret.person_id) \notin DOMAIN person
    /\ person # << >>

\* ---- C11 --------------------------------------------------------------------
\* C11: is_cache_valid() is true exactly when refresh_cache has stored a
\* snapshot, whatever its value (the empty mapping included), and no more
\* than cache_lifetime has passed since; get_cache() then returns the
\* snapshot held.
C11_ValidIffStoredAndFresh ==
    LET stored_and_fresh ==
            /\ cache # None
            /\ now - Get(cache_timestamp) <= cache_lifetime
    IN /\ is_cache_valid(St, now) <=> stored_and_fresh
       /\ stored_and_fresh => get_cache(St, now, FALSE) = cache

\* ---- C12 --------------------------------------------------------------------
\* C12 as stated: a snapshot stored at time T and not replaced since is
\* invalid, and get_cache() returns None, at every time >= T + cache_lifetime.
C12_InvalidFromLifetime ==
    (cache # None /\ now >= Get(cache_timestamp) + cache_lifetime)
        => /\ ~is_cache_valid(St, now)
           /\ get_cache(St, now, FALSE) = None

\* C12: a snapshot stored at time T and not replaced since is invalid, and
\* get_cache() returns None, at every time > T + cache_lifetime; at the
\* instant T + cache_lifetime a snapshot that is not empty is still valid
\* and get_cache() returns it.
C12_InvalidPastLifetime ==
    cache # None =>
        /\ now > Get(cache_timestamp) + cache_lifetime
            => /\ ~is_cache_valid(St, now)
               /\ get_cache(St, now, FALSE) = None
        /\ (now = Get(cache_timestamp) + cache_lifetime
                /\ DOMAIN Get(cache) # {})
            => /\ is_cache_valid(St, now)
               /\ get_cache(St, now, FALSE) = cache

\* a read at the instant T + cache_lifetime has been served from the
\* snapshot stored at T
C12_WitnessBoundary ==
    /\ ret.op = "get_all_embeddings"
    /\ ret.val = cache
    /\ DOMAIN Get(cache) # {}
    /\ now = Get(cache_timestamp) + cache_lifetime

\* ---- C13 --------------------------------------------------------------------
\* C13: when clear_database() has returned both tables are empty and
\* get_all_embeddings() returns the empty mapping; the next classify(v) of a
\* valid v, whatever was stored before the clear, returns Created with
\* count 1 and leaves exactly the new person in the store.
C13_ClearThenCreated ==
    [][ /\ ret'.op = "clear_database"
            => /\ person' = << >>
               /\ embedding' = {}
               /\ get_all_embeddings(
                     [person |-> person', embedding |-> embedding',
                      seq |-> person_id_seq', cache |-> cache',
                      ts |-> cache_timestamp'], now').val = Some(<< >>)
        /\ \A v \in MatcherVectors :
            ( /\ ret.op = "clear_database"
              /\ ret'.op = "classify"
              /\ ret'.v = Some(v)
              /\ validate_embedding(v) = NoError
              /\ Classify(v) )
            => /\ ret'.err = NoError
               /\ Get(ret'.val).status = "Created"
               /\ Get(ret'.val).count = Some(1)
               /\ DOMAIN person' = {Get(Get(ret'.val).id)}
               /\ EmbeddingsOfNext(Get(Get(ret'.val).id)) = {AsList(v)}
      ]_vars

\* the first classification after a clear that emptied a store with a
\* person in it has returned Created
C13_Witness ==
    /\ Classified("Created")
    /\ person_id_seq >= 2
    /\ DOMAIN person = {person_id_seq}
    /\ Get(ret.val).id = Some(person_id_seq)
    /\ EmbeddingsOf(person_id_seq) = {AsList(Get(ret.v))}

\* ---- C14 --------------------------------------------------------------------
\* the exception class a wrong vector reaches the caller with
ValidationError == validate_embedding(ShortVector)

\* the exception class a stored hash reaches the caller of
\* add_person_with_embedding with
DuplicateEmbeddingError ==
    LET S == [person |-> (1 :> 1),
              embedding |-> {[person_id |-> 1, embedding |-> AsList(Arr(0)),
                              embedding_hash |->
                                  calculate_embedding_hash(AsList(Arr(0)))]},
              seq |-> 1, cache |-> None, ts |-> None]
    IN add_person_with_embedding(S, Arr(0), 0).err

\* C14: add_embedding (with a valid vector), get_embeddings and
\* get_appearance_count given the id of no person each fail as not found,
\* with an exception class that is neither the one of a validation failure
\* nor the one of a duplicate, and change neither table.
C14_NotFoundIsDistinctKind ==
    [][\A p \in PersonIds :
        ( /\ p \notin DOMAIN person
          /\ ret'.person_id = Some(p)
          /\ \/ \E v \in StoreVectors :
                    validate_embedding(v) = NoError /\ AddEmbedding(p, v)
             \/ GetEmbeddings(p)
             \/ GetAppearanceCount(p) )
        => /\ ret'.msg = "not_found"
           /\ ret'.err \notin {NoError, ValidationError, DuplicateEmbeddingError}
           /\ UNCHANGED <<person, embedding, person_id_seq>>
      ]_vars

\* ---- C15 --------------------------------------------------------------------
\* C15: recognize_and_update on an image with no face or with more than one
\* face classifies nothing (tables and cache untouched) and returns the
\* Rejected text, and the text returned for an image with no face differs
\* from the text returned for an image with several faces.
C15_RejectedWithDistinctReason ==
    [][\A image \in Images :
        ( /\ ret'.op = "recognize_and_update"
          /\ ret'.v = Some(image)
          /\ Len(image) # 1
          /\ Recognize(image) )
        => /\ ret'.err = NoError
           /\ Get(ret'.val)[1] = <<"status", "Rejected">>
           /\ UNCHANGED <<person, embedding, person_id_seq, cache,
                          cache_timestamp>>
           /\ \A other \in Images :
                (Len(other) # 1 /\ (Len(other) = 0) # (Len(image) = 0))
                    => recognize_and_update(St, other, now).val # ret'.val
      ]_vars

\* ---- C16 --------------------------------------------------------------------
\* C16: with the mutating calls of several threads interleaved statement by
\* statement, whenever no call is in progress a valid cache holds exactly
\* the mapping the tables hold.
C16_QuiescentCacheEqualsStore ==
    ( /\ \A t \in Threads : frame[t].pc = "idle"
      /\ cache # None
      /\ cache_timestamp # None
      /\ is_cache_valid(St, now) )
        => Get(cache) = get_all_embeddings_from_db(St)

\* ---- C17 --------------------------------------------------------------------
\* C17: a reader that has read the snapshot and now reads the timestamp to
\* judge it (is_cache_valid inside get_all_embeddings) finds a timestamp,
\* and never judges a snapshot that a refresh_cache still in progress has
\* assigned while the timestamp of that refresh is not yet assigned.
C17_RefreshAtomic ==
    [][\A t \in Threads :
        ( /\ frame[t].pc = "read_timestamp"
          /\ frame'[t].pc # "read_timestamp"
          /\ T_GetAll_ReadTimestamp(t) )
        => /\ cache_timestamp # None
           /\ ~\E u \in Threads \ {t} :
                /\ frame[u].pc = "refresh_timestamp"
                /\ frame[u].data = frame[t].data
      ]_vars

\* ---- C18 --------------------------------------------------------------------
\* C18: a classify(v) that reaches add_person_with_embedding saw, in the
\* mapping it scanned, no vector near v, and does not look again: if v's
\* hash is not stored it returns Created and adds a person owning exactly v,
\* every other person unchanged, also when another person has meanwhile
\* come to own a vector near v.  So two classify calls of near vectors that
\* both scan before either creates both end in Created (C18_Witness).
C18_CreateAfterScanWithoutMatch ==
    [][\A t \in Threads :
        ( /\ frame[t].pc = "create"
          /\ frame'[t].pc = "idle"
          /\ T_Classify_Create(t) )
        => LET v    == Get(frame[t].v)
               seen == Get(frame[t].data)
               id   == person_id_seq + 1
           IN /\ \A p \in DOMAIN seen : \A s \in seen[p] : ~Near(v, s)
              /\ IF calculate_embedding_hash(AsList(v)) \in StoredHashes
                 THEN /\ ret'.msg = "duplicate"
                      /\ UNCHANGED <<person, embedding, person_id_seq>>
                 ELSE /\ ret' = [op |-> "classify", person_id |-> None,
                                 v |-> Some(v), err |-> NoError, msg |-> "",
                                 val |-> Some(Outcome("Created", Some(id),
                                                      Some(1)))]
                      /\ person' = (id :> 1) @@ person
                      /\ EmbeddingsOfNext(id) = {AsList(v)}
                      /\ \A p \in DOMAIN person :
                            EmbeddingsOfNext(p) = EmbeddingsOf(p)
      ]_vars

\* two classify calls, and no other call, have been made on the empty
\* store, for two different vectors within the threshold of each other;
\* both have returned Created, and each vector has a person of its own
C18_Witness ==
    /\ calls = 2
    /\ \A t \in Threads : frame[t].pc = "idle"
    /\ Classified("Created")
    /\ DOMAIN person = {1, 2}
    /\ person[1] = 1 /\ person[2] = 1
    /\ \E a \in EmbeddingsOf(1), b \in EmbeddingsOf(2) :
        /\ EmbeddingsOf(1) = {a}
        /\ EmbeddingsOf(2) = {b}
        /\ a # b
        /\ Near(a, b)

\* ---- C19 --------------------------------------------------------------------
\* C19: increment_appearance(id) on a person raises its appearance_count by
\* exactly 1 and changes no embedding and no other person; with the id of
\* no person it raises nothing and changes neither the tables nor the cache
\* and its timestamp.
C19_IncrementByOne ==
    [][\A p \in PersonIds :
        ( /\ ret'.op = "increment_appearance"
          /\ ret'.person_id = Some(p)
          /\ IncrementAppearance(p) )
        => /\ ret'.err = NoError
           /\ UNCHANGED <<embedding, person_id_seq>>
           /\ IF p \in DOMAIN person
              THEN person' = [person EXCEPT ![p] = person[p] + 1]
              ELSE UNCHANGED <<person, cache, cache_timestamp>>
      ]_vars

\* a person has been incremented to 2 beside another person still at 1,
\* both owning embeddings
C19_Witness ==
    /\ ret.op = "increment_appearance"
    /\ Get(ret.person_id) \in DOMAIN person
    /\ person[Get(ret.person_id)] = 2
    /\ \E q \in DOMAIN person : q # Get(ret.person_id) /\ person[q] = 1
    /\ \A q \in DOMAIN person : EmbeddingsOf(q) # {}

\* ---- C20 --------------------------------------------------------------------
\* C20: classify(v) of a valid v that person p owns already, no other
\* person owning a vector near v, raises nothing and returns Updated for p
\* with the count before plus 1; the embedding table is unchanged and p's
\* appearance_count has risen by 1.
C20_ExactDuplicateUpdates ==
    [][\A v \in MatcherVectors, p \in PersonIds :
        ( /\ ret'.op = "classify"
          /\ ret'.v = Some(v)
          /\ validate_embedding(v) = NoError
          /\ p \in DOMAIN person
          /\ AsList(v) \in EmbeddingsOf(p)
          /\ NearPersons(v) = {p}
          /\ Classify(v) )
        => /\ ret'.err = NoError
           /\ ret'.val = Some(Outcome("Updated", Some(p), Some(person[p] + 1)))
           /\ embedding' = embedding
           /\ person' = [person EXCEPT ![p] = person[p] + 1]
      ]_vars

\* the only vector of a person has been classified again beside a second
\* person: Updated, count 2, still one embedding
C20_Witness ==
    /\ Classified("Updated")
    /\ Get(ret.val).count = Some(2)
    /\ EmbeddingsOf(Get(Get(ret.val).id)) = {AsList(Get(ret.v))}
    /\ person[Get(Get(ret.val).id)] = 2
    /\ Cardinality(DOMAIN person) = 2

\* ---- C21 --------------------------------------------------------------------
\* no id and no count has reached the cap the model puts on them
Headroom ==
    /\ person_id_seq < MaxPersonId
    /\ \A p \in DOMAIN person : person[p] < MaxAppearance

\* C21: a classify call moves only forward: after the scan it makes either
\* one add_person_with_embedding and returns, or one add_embedding, then one
\* increment_appearance, then one get_appearance_count and returns; its
\* add_person_with_embedding adds at most one person, its add_embedding at
\* most one row, its increment_appearance 1 to the matched person; a store
\* call that raises ends the call at once with that error and no further
\* change; and a call that has started returns (as long as the caps of the
\* model leave room for its writes).
C21_RunsOnceToCompletion ==
    /\ [][\A t \in Threads :
            (frame[t].op = "classify" /\ frame'[t] # frame[t])
            => LET pc  == frame[t].pc
                   pc2 == frame'[t].pc
                   p   == Get(frame[t].person_id)
                   returned == /\ pc2 = "idle"
                               /\ ret'.op = "classify"
                               /\ ret'.v = frame[t].v
                   raised   == /\ returned
                               /\ ret'.err # NoError
                               /\ UNCHANGED <<person, embedding, person_id_seq>>
               IN
               /\ pc = "create" =>
                    \/ raised
                    \/ /\ returned
                       /\ ret'.err = NoError
                       /\ Get(ret'.val).status = "Created"
                       /\ Cardinality(DOMAIN person') = Cardinality(DOMAIN person) + 1
                       /\ Cardinality(embedding') = Cardinality(embedding) + 1
               /\ pc = "append" =>
                    \/ raised
                    \/ /\ pc2 = "increment"
                       /\ person' = person
                       /\ embedding \subseteq embedding'
                       /\ Cardinality(embedding') <= Cardinality(embedding) + 1
                       /\ UNCHANGED ret
               /\ pc = "increment" =>
                    /\ pc2 = "count"
                    /\ embedding' = embedding
                    /\ \/ person' = person
                       \/ person' = [person EXCEPT ![p] = person[p] + 1]
                    /\ UNCHANGED ret
               /\ pc = "count" =>
                    \/ raised
                    \/ /\ returned
                       /\ ret'.err = NoError
                       /\ Get(ret'.val).status = "Updated"
                       /\ UNCHANGED <<person, embedding, person_id_seq>>
               /\ pc \in {"create", "append", "increment", "count"}
       ]_vars
    /\ \A t \in Threads :
        (frame[t].pc # "idle" /\ Headroom) ~> (frame[t].pc = "idle" \/ ~Headroom)

\* a classify call whose add_embedding raised, the matched person having
\* been deleted after the scan, has returned that error; nothing was written
C21_Witness ==
    /\ ret.op = "classify"
    /\ ret.err = "Exception"
    /\ ret.msg = "not_found"
    /\ person = << >>
    /\ embedding = {}
    /\ \A t \in Threads : frame[t].pc = "idle"

\* ---- C22 --------------------------------------------------------------------
\* C22: with the store changed only by classify and clear_database, one
\* call after the other, no vector of one person lies less than the
\* threshold away from a vector of another person.
C22_PersonsSeparated ==
    \A r1, r2 \in embedding :
        r1.person_id # r2.person_id => ~Near(r1.embedding, r2.embedding)

\* two persons, one of them owning two vectors, and a vector of the one
\* exactly the threshold away from a vector of the other
C22_Witness ==
    /\ Cardinality(DOMAIN person) = 2
    /\ \E p \in DOMAIN person : Cardinality(EmbeddingsOf(p)) = 2
    /\ \E r1, r2 \in embedding :
        /\ r1.person_id # r2.person_id
        /\ (r1.embedding.x - r2.embedding.x) * (r1.embedding.x - r2.embedding.x)
                = threshold * threshold

\* ---- C23 --------------------------------------------------------------------
\* C23: with add_person_with_embedding, add_embedding, increment_appearance
\* and clear_database interleaved statement by statement, after every step
\* each person in the table owns at least one embedding and has an
\* appearance_count of at least 1, and no step lowers the appearance_count
\* of a person that stays in the table.
C23_CountsNeverDecrease ==
    [][ /\ \A p \in DOMAIN person' :
            /\ EmbeddingsOfNext(p) # {}
            /\ person'[p] >= 1
        /\ \A p \in DOMAIN person \cap DOMAIN person' :
            person'[p] >= person[p]
      ]_vars

\* ---- C24 --------------------------------------------------------------------
\* C24: every increment_appearance(id) that commits raises the committed
\* appearance_count of the person by exactly 1, also when another
\* increment_appearance(id) has committed between its read of the count and
\* its own commit; so k calls that return raise the count by k.
C24_NoLostIncrement ==
    [][\A t \in Threads :
        ( /\ frame[t].op = "increment_appearance"
          /\ frame[t].pc = "commit"
          /\ frame'[t].pc = "snapshot" )
        => LET p == Get(frame[t].person_id)
           IN person'[p] = person[p] + 1
      ]_vars

====
